---- MODULE Spec2Model ----
(***************************************************************************)
(* Model of sourcetpl/package.py: the Package class, which renders the     *)
(* packaging skeleton of a project (Debian maintainer scripts, the build   *)
(* and clean scripts, a cron entry, an init script and package.conf) from  *)
(* literal templates and registers the results with a FileTemplateInfo.    *)
(*                                                                         *)
(* A text is a sequence of elements.  Every "$", and every character after *)
(* it up to and including the first character that cannot continue a       *)
(* placeholder, is an element of its own; the text between placeholders is *)
(* kept in multi-character elements (one per line), which the scanner and  *)
(* the formatter copy through.  Concatenating the elements of a text gives *)
(* the text byte for byte.                                                 *)
(***************************************************************************)
EXTENDS Integers, Sequences, FiniteSets, TLC

\* Python's None, where a text may be absent: a value that is no text of the
\* model.
None == <<"<None>">>

(***************************************************************************)
(* Bounds of the model.                                                    *)
(***************************************************************************)
\* create() is called at most this many times on one Package.
MaxCreate == 2

(***************************************************************************)
(* The template catalog (module-level string constants).                   *)
(***************************************************************************)
\* src/sourcetpl/package.py:31
PREFIX == <<"p", "a", "c", "k", "a", "g", "e">>

\* The character U+0060 (grave accent), which a TLA+ string cannot hold: an
\* element of its own wherever a template has it.
Backquote == "<U+0060>"

\* src/sourcetpl/package.py:33-156
BUILD_PACKAGE ==
  <<
   "package_conf=\"../package.conf\"\n",
   "package_tmp_dir=tmpbuild\n",
   "arch=i686\n",
   "\n", "# Compile all internal applications\n",
   "compile_applications()\n",
   "{\n",
   "    local modules=", Backquote, "cfget -C ", "$", "p", "a", "c", "k", "a", "g", "e", "_",
   "c", "o", "n", "f", " ", "package/modules", Backquote, "\n", "\n", "    for app in ", "$",
   "{", "m", "o", "d", "u", "l", "e", "s", "[", "@]}; do\n",
   "        echo \"(cd ../../", "$", "a", "p", "p", "/", "src && make clean && make)\"\n",
   "    done\n",
   "}\n",
   "\n", "# Prepare the current environment to build the package\n",
   "prepare_to_build()\n",
   "{\n",
   "    rm -f *.deb\n",
   "    mkdir -p ", "$", "p", "a", "c", "k", "a", "g", "e", "_", "t", "m", "p", "_", "d", "i",
   "r", "/", "{DEBIAN,usr/bin,etc/{cron.d,init.d}}\n",
   "}\n",
   "\n", "# Copy all necessary files\n",
   "copy_necessary_files()\n",
   "{\n",
   "    local modules=", Backquote, "cfget -C ", "$", "p", "a", "c", "k", "a", "g", "e", "_",
   "c", "o", "n", "f", " ", "package/modules", Backquote, "\n", "\n", "    prepare_to_build\n",
   "\n", "    # Copy all binaries\n",
   "    for app in ", "$", "{", "m", "o", "d", "u", "l", "e", "s", "[", "@]}; do\n",
   "        cp -f ../../", "$", "a", "p", "p", "/", "bin/", "$", "a", "r", "c", "h", "/", "* ",
   "$", "p", "a", "c", "k", "a", "g", "e", "_", "t", "m", "p", "_", "d", "i", "r", "/",
   "usr/bin || \\\n",
   "            echo \"Error while copying binary from module '", "$", "a", "p", "p", "'",
   ".\"\n",
   "    done\n",
   "\n", "    # Copy misc scripts\n",
   "    local dest_cron=", Backquote, "basename ../misc/*_cron _cron", Backquote, "\n",
   "    cp -f ../misc/*_cron ", "$", "p", "a", "c", "k", "a", "g", "e", "_", "t", "m", "p",
   "_", "d", "i", "r", "/", "etc/cron.d/", "$", "d", "e", "s", "t", "_", "c", "r", "o", "n",
   " ", "|| \\\n",
   "        echo \"Error copying to file '", "$", "d", "e", "s", "t", "_", "c", "r", "o", "n",
   "'", ".\"\n",
   "\n", "    local dest_init=", Backquote, "basename ../misc/*_initd _initd", Backquote, "\n",
   "    cp -f ../misc/*_initd ", "$", "p", "a", "c", "k", "a", "g", "e", "_", "t", "m", "p",
   "_", "d", "i", "r", "/", "etc/init.d/", "$", "d", "e", "s", "t", "_", "i", "n", "i", "t",
   " ", "|| \\\n",
   "        echo \"Error copying to file '", "$", "d", "e", "s", "t", "_", "i", "n", "i", "t",
   "'", ".\"\n",
   "\n", "    # Copy all debian scripts\n",
   "    for script in postinst postrm preinst prerm; do\n",
   "        cp -f ../debian/", "$", "s", "c", "r", "i", "p", "t", " ", "$", "p", "a", "c", "k",
   "a", "g", "e", "_", "t", "m", "p", "_", "d", "i", "r", "/", "DEBIAN || \\\n",
   "            echo \"Error copying file '", "$", "s", "c", "r", "i", "p", "t", "'", ".\"\n",
   "    done\n",
   "}\n",
   "\n", "clear_temporary_files()\n",
   "{\n",
   "    rm -rf ", "$", "p", "a", "c", "k", "a", "g", "e", "_", "t", "m", "p", "_", "d", "i",
   "r", "\n", "}\n",
   "\n", "# Build the package\n",
   "build_package()\n",
   "{\n",
   "    # Build all package info, such as version, revision, etc\n",
   "    local package=", Backquote, "cfget -C ", "$", "p", "a", "c", "k", "a", "g", "e", "_",
   "c", "o", "n", "f", " ", "package/name", Backquote, "\n", "    local major=", Backquote,
   "cfget -C ", "$", "p", "a", "c", "k", "a", "g", "e", "_", "c", "o", "n", "f", " ",
   "version/major", Backquote, "\n", "    local minor=", Backquote, "cfget -C ", "$", "p", "a",
   "c", "k", "a", "g", "e", "_", "c", "o", "n", "f", " ", "version/minor", Backquote, "\n",
   "    local release=", Backquote, "cfget -C ", "$", "p", "a", "c", "k", "a", "g", "e", "_",
   "c", "o", "n", "f", " ", "version/release", Backquote, "\n", "    local beta_release=",
   Backquote, "cfget -C ", "$", "p", "a", "c", "k", "a", "g", "e", "_", "c", "o", "n", "f",
   " ", "version/beta", Backquote, "\n", "    local version=", "$", "m", "a", "j", "o", "r",
   ".", "$", "m", "i", "n", "o", "r", ".", "$", "r", "e", "l", "e", "a", "s", "e", "\n", "\n",
   "    local depends=''\n",
   "    local maintainer=''\n",
   "    local description=''\n",
   "\n", "    # Create CONTROL file\n",
   "    cat << CONTROL >> ", "$", "p", "a", "c", "k", "a", "g", "e", "_", "t", "m", "p", "_",
   "d", "i", "r", "/", "DEBIAN/control\n",
   "Package: ", "$", "p", "a", "c", "k", "a", "g", "e", "\n", "Priority: optional\n",
   "Version: ", "$", "v", "e", "r", "s", "i", "o", "n", "\n", "Architecture: ", "$", "a", "r",
   "c", "h", "\n", "Depends: ", "$", "d", "e", "p", "e", "n", "d", "s", "\n", "Maintainer: ",
   "$", "m", "a", "i", "n", "t", "a", "i", "n", "e", "r", "\n", "Description: ", "$", "d", "e",
   "s", "c", "r", "i", "p", "t", "i", "o", "n", "\n", "CONTROL\n",
   "\n", "    # Build the package\n",
   "    if [ ", "$", "b", "e", "t", "a", "_", "r", "e", "l", "e", "a", "s", "e", " ",
   "== true ]; then\n",
   "        beta=\"-Beta\"\n",
   "    else\n",
   "        beta=\"\"\n",
   "    fi\n",
   "\n", "    deb_filename=", "$", "p", "a", "c", "k", "a", "g", "e", "-", "$", "v", "e", "r",
   "s", "i", "o", "n", ".", "deb\n",
   "    fakeroot dpkg-deb -Zgzip -b ", "$", "p", "a", "c", "k", "a", "g", "e", "_", "t", "m",
   "p", "_", "d", "i", "r", " ", "$", "d", "e", "b", "_", "f", "i", "l", "e", "n", "a", "m",
   "e", "\n", "\n", "    clear_temporary_files\n",
   "}\n",
   "\n", "usage()\n",
   "{\n",
   "    echo \"Usage: ./build-package [OPTIONS]\"\n",
   "    echo\n",
   "    echo \"Options\"\n",
   "    echo -e \" -h\\t\\tShows this help screen.\"\n",
   "    echo -e \" -a [arch]\\tDefines the package destination architecture.\"\n",
   "    echo\n",
   "\n", "    exit 1\n",
   "}\n",
   "\n", "while getopts \"ha:\" OPTION; do\n",
   "    case ", "$", "O", "P", "T", "I", "O", "N", " ", "in\n",
   "        h)\n",
   "            usage\n",
   "            ;;\n",
   "        a)\n",
   "            arch=", "$", "O", "P", "T", "A", "R", "G", "\n", "            ;;\n",
   "        \\?)\n",
   "            exit 1\n",
   "            ;;\n",
   "    esac\n",
   "done\n",
   "\n", "compile_applications\n",
   "copy_necessary_files\n",
   "build_package\n"
  >>

\* src/sourcetpl/package.py:158-167
CLEAN_PACKAGE ==
  <<
   "package_dir=../../\n",
   "\n", "# Remove older versions\n",
   "rm -rf *.deb\n",
   "\n", "for arq in ", "$", "p", "a", "c", "k", "a", "g", "e", "_", "d", "i", "r", "*",
   "/src; do\n",
   "    echo \"Cleaning source directory: ", "$", "a", "r", "q", "\"", "\n", "    (cd ", "$",
   "a", "r", "q", " ", "&& make clean)\n",
   "done\n"
  >>

\* src/sourcetpl/package.py:169-173
CRON ==
  <<
   "SHELL=/bin/sh\n",
   "PATH=/usr/local/sbin:/usr/local/bin:/sbin:/bin:/usr/sbin:/usr/bin\n",
   "\n", "*/1 * * * *    root    /etc/init.d/", "$", "P", "R", "O", "J", "E", "C", "T", "_",
   "N", "A", "M", "E", ".", "sh status || /etc/init.d/", "$", "P", "R", "O", "J", "E", "C",
   "T", "_", "N", "A", "M", "E", ".", "sh start\n"
  >>

\* src/sourcetpl/package.py:175-233
INITD ==
  <<
   "#!/bin/sh\n",
   "\n", ". /lib/lsb/init-functions\n",
   "\n", "case \"", "$", "1", "\"", " in\n",
   "    start)\n",
   "        log_begin_msg \"Starting ", "$", "P", "R", "O", "J", "E", "C", "T", "_", "N", "A",
   "M", "E", ":", " \"\n",
   "\n", "        if start-stop-daemon --start --quiet --exec /usr/local/bin/", "$", "P", "R",
   "O", "J", "E", "C", "T", "_", "N", "A", "M", "E", ";", " then\n",
   "            log_end_msg 0\n",
   "        else\n",
   "            log_end_msg 1\n",
   "        fi\n",
   "        ;;\n",
   "\n", "    stop)\n",
   "        log_begin_msg \"Shutting down ", "$", "P", "R", "O", "J", "E", "C", "T", "_", "N",
   "A", "M", "E", ":", " \"\n",
   "\n", "        if start-stop-daemon --stop --quiet --exec /usr/local/bin/", "$", "P", "R",
   "O", "J", "E", "C", "T", "_", "N", "A", "M", "E", ";", " then\n",
   "            log_end_msg 0\n",
   "        else\n",
   "            log_end_msg 1\n",
   "        fi\n",
   "        ;;\n",
   "\n", "    status)\n",
   "        if [ -s /var/run/", "$", "P", "R", "O", "J", "E", "C", "T", "_", "N", "A", "M",
   "E", ".", "pid ]; then\n",
   "            if kill -0 ", Backquote, "cat /var/run/", "$", "P", "R", "O", "J", "E", "C",
   "T", "_", "N", "A", "M", "E", ".", "pid", Backquote, " 2>/dev/null; then\n",
   "                log_success_msg \"", "$", "P", "R", "O", "J", "E", "C", "T", "_", "N", "A",
   "M", "E", " ", "esta sendo executado\"\n",
   "                exit 0\n",
   "            else\n",
   "                log_failure_msg \"/var/run/", "$", "P", "R", "O", "J", "E", "C", "T", "_",
   "N", "A", "M", "E", ".", "pid exists but ", "$", "P", "R", "O", "J", "E", "C", "T", "_",
   "N", "A", "M", "E", " ", "is not running\"\n",
   "                exit 1\n",
   "            fi\n",
   "        else\n",
   "            log_success_msg \"", "$", "P", "R", "O", "J", "E", "C", "T", "_", "N", "A",
   "M", "E", " ", "is not running\"\n",
   "            exit 3\n",
   "        fi\n",
   "        ;;\n",
   "\n", "    restart)\n",
   "        ", "$", "0", " ", "stop\n",
   "        sleep 5\n",
   "        ", "$", "0", " ", "start\n",
   "        ;;\n",
   "\n", "    reload)\n",
   "        log_begin_msg \"Restarting ", "$", "P", "R", "O", "J", "E", "C", "T", "_", "N",
   "A", "M", "E", ":", " \"\n",
   "        start-stop-daemon --stop --signal 10 --exec /usr/local/bin/", "$", "P", "R", "O",
   "J", "E", "C", "T", "_", "N", "A", "M", "E", " ", "|| log_end_msg 1\n",
   "        log_end_msg 0\n",
   "        ;;\n",
   "\n", "    *)\n",
   "        log_begin_msg \"Usage: %s (start|stop|status|restart|reload)\" \"", "$", "0", "\"",
   "\n", "        exit 1\n",
   "esac\n",
   "\n", "exit 0\n"
  >>

\* src/sourcetpl/package.py:235-248
PACKAGE_CONF ==
  <<
   "# Main package informations.\n",
   "# The package modules must be separated by spaces.\n",
   "[package]\n",
   "name=", "$", "P", "R", "O", "J", "E", "C", "T", "_", "N", "A", "M", "E", "\n", "modules=",
   "$", "P", "R", "O", "J", "E", "C", "T", "_", "N", "A", "M", "E", "\n", "\n",
   "# Package version: major.minor.release\n",
   "# Example: 0.1.1\n",
   "[version]\n",
   "major=0\n",
   "minor=1\n",
   "release=1\n",
   "beta=true\n"
  >>

\* string.Template.safe_substitute, as _prepare_package_files calls it.
\* Template's pattern, matched case-insensitively, is a "$" followed by one of
\*   escaped: "$"     named: [_a-z][_a-z0-9]*     braced: "{" [_a-z][_a-z0-9]* "}"
\*   invalid: nothing
\* tried in this order.
Letters ==
  {"a", "b", "c", "d", "e", "f", "g", "h", "i", "j", "k", "l", "m", "n", "o", "p", "q",
   "r", "s", "t", "u", "v", "w", "x", "y", "z", "A", "B", "C", "D", "E", "F", "G", "H",
   "I", "J", "K", "L", "M", "N", "O", "P", "Q", "R", "S", "T", "U", "V", "W", "X", "Y",
   "Z"}

Digits == {"0", "1", "2", "3", "4", "5", "6", "7", "8", "9"}

IdStartChars == Letters \cup {"_"}

IdChars == IdStartChars \cup Digits

\* [_a-z] under re.IGNORECASE
IdStart(c) == c \in IdStartChars

\* [_a-z0-9] under re.IGNORECASE
IdChar(c) == c \in IdChars

\* The index of the last element of the greedy identifier that starts at i.
RECURSIVE IdEnd(_, _)
IdEnd(t, i) == IF i < Len(t) /\ IdChar(t[i + 1]) THEN IdEnd(t, i + 1) ELSE i

\* The match of Template's pattern at a "$" at index i of t.
Match(t, i) ==
  IF i < Len(t) /\ t[i + 1] = "$"
    THEN [kind |-> "escaped", name |-> <<>>, first |-> i, last |-> i + 1]
  ELSE IF i < Len(t) /\ IdStart(t[i + 1])
    THEN LET e == IdEnd(t, i + 1)
         IN  [kind |-> "named", name |-> SubSeq(t, i + 1, e), first |-> i, last |-> e]
  ELSE IF i + 1 < Len(t) /\ t[i + 1] = "{" /\ IdStart(t[i + 2])
    THEN LET e == IdEnd(t, i + 2)
         IN  IF e < Len(t) /\ t[e + 1] = "}"
               THEN [kind |-> "braced", name |-> SubSeq(t, i + 2, e), first |-> i,
                     last |-> e + 1]
               ELSE [kind |-> "invalid", name |-> <<>>, first |-> i, last |-> i]
  ELSE [kind |-> "invalid", name |-> <<>>, first |-> i, last |-> i]

\* The number of "$" elements right before index i.
RECURSIVE DollarsBefore(_, _)
DollarsBefore(t, i) == IF i > 1 /\ t[i - 1] = "$" THEN 1 + DollarsBefore(t, i - 1) ELSE 0

\* A match of the pattern starts at index i: pattern.sub visits the matches
\* left to right without overlap, and only the escape "$$" takes a "$" into a
\* match that started before it, so in a run of "$" every other one starts a
\* match.
MatchStart(t, i) == t[i] = "$" /\ DollarsBefore(t, i) % 2 = 0

\* The index of the nearest "$" before index i with nothing but identifier
\* characters and "{" in between; 0 when there is none.
RECURSIVE DollarBehind(_, _)
DollarBehind(t, i) ==
  IF i <= 1 THEN 0
  ELSE IF t[i - 1] = "$" THEN i - 1
  ELSE IF IdChar(t[i - 1]) \/ t[i - 1] = "{" THEN DollarBehind(t, i - 1)
  ELSE 0

\* Index i lies inside a match that started before it.
Covered(t, i) ==
  LET d == DollarBehind(t, i)
  IN  d > 0 /\ MatchStart(t, d) /\ Match(t, d).last >= i

\* The matches of the pattern in t.
Matches(t) == {Match(t, i) : i \in {j \in 1..Len(t) : MatchStart(t, j)}}

\* The text of a piece in the template.
Src(t, p) == SubSeq(t, p.first, p.last)

\* Mutant of Convert: a placeholder with no binding is replaced by the empty
\* text.
M_Convert(t, p, mapping) ==
  IF p.kind \in {"named", "braced"}
    THEN IF p.name \in DOMAIN mapping THEN mapping[p.name] ELSE <<>>
  ELSE IF p.kind = "escaped" THEN <<"$">>
  ELSE Src(t, p)

\* safe_substitute's convert(mo): a named or braced placeholder becomes
\* str(mapping[name]) when the name is a key and is returned as matched
\* otherwise (the KeyError is caught); "$$" becomes "$"; an invalid "$" is
\* returned as matched; text outside the matches is copied.
Convert(t, p, mapping) ==
  IF p.kind \in {"named", "braced"}
    THEN IF p.name \in DOMAIN mapping THEN mapping[p.name] ELSE Src(t, p)
  ELSE IF p.kind = "escaped" THEN <<"$">>
  ELSE Src(t, p)

\* What pattern.sub puts out for index i: the conversion of the match that
\* starts there, nothing for the rest of a match, the element itself outside
\* the matches.
ElemOut(t, i, mapping) ==
  IF MatchStart(t, i) THEN Convert(t, Match(t, i), mapping)
  ELSE IF Covered(t, i) THEN <<>>
  ELSE <<t[i]>>

\* The output for the indices lo..hi, in order.
RECURSIVE Render(_, _, _, _)
Render(t, lo, hi, mapping) ==
  IF lo > hi THEN <<>>
  ELSE IF lo = hi THEN ElemOut(t, lo, mapping)
  ELSE Render(t, lo, (lo + hi) \div 2, mapping)
         \o Render(t, (lo + hi) \div 2 + 1, hi, mapping)

\* Template(t).safe_substitute(mapping)
SafeSubstitute(t, mapping) == Render(t, 1, Len(t), mapping)

(***************************************************************************)
(* The collaborators Package imports (FileTemplate, utils, license,        *)
(* languages.bash).  Their code is not part of package.py; they are        *)
(* modelled from their description in the specification.                   *)
(***************************************************************************)
\* utils.C_LANGUAGE: the marker of the native/compiled language.
C_LANGUAGE == "C"

\* bash.HEAD: the plain shell-script header template.
HEAD ==
  <<"#!/bin/bash\n", "\n", "#\n", "# Project: ", "$", "P", "R", "O", "J", "E", "C", "T",
    "_", "N", "A", "M", "E", "\n", "#\n", "\n">>

\* bash.HEAD_LICENSE: the header template with one text-insertion slot ("%s"),
\* which Package fills with the license block.
HEAD_LICENSE ==
  <<"#!/bin/bash\n", "\n", "#\n", "# Project: ", "$", "P", "R", "O", "J", "E", "C", "T",
    "_", "N", "A", "M", "E", "\n", "#\n", "%", "s", "\n", "\n">>

\* bash.TAIL: the shell-script footer template.
TAIL ==
  <<"\n", "# End of ", "$", "{", "P", "R", "O", "J", "E", "C", "T", "_", "N", "A", "M", "E",
    "}", "\n">>

\* The license identifiers license.license_block recognizes.
KnownLicenses == {<<"gpl2">>}

\* license.license_block(license, project_vars, comment_char): the license
\* text, each line behind comment_char; it fails with an unknown-license error
\* on an identifier it does not recognize.
license_block(lic, vars, comment_char) ==
  IF lic \notin KnownLicenses
    THEN [err |-> "UnknownLicense", text |-> <<>>]
    ELSE [err |-> "none",
          text |-> SafeSubstitute(
                     <<comment_char, " Copyright (C) ", "$", "Y", "E", "A", "R", " ", "$", "P",
                       "R", "O", "J", "E", "C", "T", "_", "N", "A", "M", "E", "\n",
                       comment_char, " Licensed under the GNU GPL version 2, 100", "%",
                       " free software.\n">>, vars)]

\* FileTemplateInfo.add(name, path, body=, executable=, head=, tail=):
\* registers one pending file after those already registered.
FileTemplateInfo_add(fs, name, path, body, executable, head, tail) ==
  Append(fs, [name |-> name, path |-> path, body |-> body,
              executable |-> executable, head |-> head, tail |-> tail])

\* FileTemplateInfo.save_all(): writes every registered entry, in order; the
\* entries stay registered.  The model keeps the entries handed to it.
FileTemplateInfo_save_all(done, fs) == done \o fs

(***************************************************************************)
(* Python's str % arg for a str arg, on the directives that can reach it   *)
(* here: "%%", "%s", and a "%" before a character that is no directive.    *)
(***************************************************************************)
Ok(text) == [err |-> "none", text |-> text]

Raise(e) == [err |-> e, text |-> <<>>]

\* r with text put in front of its text, unless r is an error.
Emit(text, r) == IF r.err = "none" THEN Ok(text \o r.text) ELSE r

\* fmt % arg from index i on; unused is TRUE while arg is not yet consumed.
\* "%%" gives "%"; "%s" gives str(arg), or TypeError (not enough arguments)
\* when arg was consumed before; "%(" is TypeError (format requires a
\* mapping); a numeric conversion of a str is TypeError; a "%" at the end of
\* fmt (incomplete format) or before any other character (unsupported format
\* character) is ValueError; an arg left over at the end is TypeError (not all
\* arguments converted).  The first error met ends the formatting.
RECURSIVE Format(_, _, _, _)
Format(fmt, i, arg, unused) ==
  IF i > Len(fmt) THEN (IF unused THEN Raise("TypeError") ELSE Ok(<<>>))
  ELSE IF fmt[i] # "%" THEN Emit(<<fmt[i]>>, Format(fmt, i + 1, arg, unused))
  ELSE IF i = Len(fmt) THEN Raise("ValueError")
  ELSE IF fmt[i + 1] = "%" THEN Emit(<<"%">>, Format(fmt, i + 2, arg, unused))
  ELSE IF fmt[i + 1] = "s"
    THEN (IF unused THEN Emit(arg, Format(fmt, i + 2, arg, FALSE)) ELSE Raise("TypeError"))
  ELSE IF fmt[i + 1] \in {"(", "d", "i", "o", "u", "x", "X", "e", "E", "f", "F", "g", "G"}
    THEN Raise("TypeError")
  ELSE Raise("ValueError")

\* fmt % arg
PercentFormat(fmt, arg) == Format(fmt, 1, arg, TRUE)

(***************************************************************************)
(* class Package                                                           *)
(***************************************************************************)
\* str.replace(old, new) for one-character old and new.
Replace(s, old, new) == [i \in 1..Len(s) |-> IF s[i] = old THEN new ELSE s[i]]

\* Mutant of RootDirName: the project name is used as given.
M_RootDirName(a) == PREFIX \o <<"-">> \o a.prefix \o a.project_name

\* __init__: self._root_dir
RootDirName(a) == PREFIX \o <<"-">> \o a.prefix \o Replace(a.project_name, "_", "-")

\* Mutant of FilePrefix: the replacement of the root directory name is used.
M_FilePrefix(a) == Replace(a.project_name, "_", "-")

\* _prepare_package_files: prefix
FilePrefix(a) == Replace(a.project_name, "-", "_")

\* Mutant of BuildPackageBody: the body is rendered whatever the language.
M_BuildPackageBody(a, vars) == SafeSubstitute(BUILD_PACKAGE, vars)

\* _prepare_package_files: build_package, the value the one-entry dictionary
\* {utils.C_LANGUAGE: ...} gives for the language (None for any other key).
BuildPackageBody(a, vars) ==
  IF a.language = C_LANGUAGE THEN SafeSubstitute(BUILD_PACKAGE, vars) ELSE None

\* _prepare_package_files: bash_head.  The operands of % are evaluated left to
\* right: the template is rendered, license_block is called, and its error, if
\* any, leaves before the formatting.
BashHead(a, vars) ==
  IF a.license = None
    THEN Ok(SafeSubstitute(HEAD, vars))
    ELSE LET fmt == SafeSubstitute(HEAD_LICENSE, vars)
             block == license_block(a.license, vars, "#")
         IN  IF block.err # "none" THEN Raise(block.err)
             ELSE PercentFormat(fmt, block.text)

\* _prepare_package_files: the number of calls of license.license_block.
LicenseCalls(a) == IF a.license = None THEN 0 ELSE 1

\* _prepare_package_files: bash_tail
BashTail(vars) == SafeSubstitute(TAIL, vars)

\* One row of the files list: (filename, executable, path, body, head, tail).
Row(filename, executable, path, body, head, tail) ==
  [filename |-> filename, executable |-> executable, path |-> path, body |-> body,
   head |-> head, tail |-> tail]

\* Mutant of FilesList: clean-package goes with the Debian scripts and the
\* init script is left out.
M_FilesList(prefix, build_package, bash_head, bash_tail, vars) ==
  <<Row(<<"postinst">>, TRUE, "debian", None, bash_head, bash_tail),
    Row(<<"postrm">>, TRUE, "debian", None, bash_head, bash_tail),
    Row(<<"preinst">>, TRUE, "debian", None, bash_head, bash_tail),
    Row(<<"prerm">>, TRUE, "debian", None, bash_head, bash_tail),
    Row(<<"build-package">>, TRUE, "mount", build_package, bash_head, bash_tail),
    Row(<<"clean-package">>, TRUE, "debian", SafeSubstitute(CLEAN_PACKAGE, vars), bash_head,
        bash_tail),
    Row(prefix \o <<"_cron">>, FALSE, "misc", SafeSubstitute(CRON, vars), None, None),
    Row(<<"package.conf">>, FALSE, "", SafeSubstitute(PACKAGE_CONF, vars), None, None)>>

\* _prepare_package_files: files
FilesList(prefix, build_package, bash_head, bash_tail, vars) ==
  <<Row(<<"postinst">>, TRUE, "debian", None, bash_head, bash_tail),
    Row(<<"postrm">>, TRUE, "debian", None, bash_head, bash_tail),
    Row(<<"preinst">>, TRUE, "debian", None, bash_head, bash_tail),
    Row(<<"prerm">>, TRUE, "debian", None, bash_head, bash_tail),
    Row(<<"build-package">>, TRUE, "mount", build_package, bash_head, bash_tail),
    Row(<<"clean-package">>, TRUE, "mount", SafeSubstitute(CLEAN_PACKAGE, vars), bash_head,
        bash_tail),
    Row(prefix \o <<"_cron">>, FALSE, "misc", SafeSubstitute(CRON, vars), None, None),
    Row(prefix \o <<"_initd">>, TRUE, "misc", SafeSubstitute(INITD, vars), None, None),
    Row(<<"package.conf">>, FALSE, "", SafeSubstitute(PACKAGE_CONF, vars), None, None)>>

\* _prepare_package_files: the loop that registers the rows, in order.
RECURSIVE AddAll(_, _, _)
AddAll(fs, rows, k) ==
  IF k > Len(rows) THEN fs
  ELSE AddAll(FileTemplateInfo_add(fs, rows[k].filename, rows[k].path, rows[k].body,
                                   rows[k].executable, rows[k].head, rows[k].tail),
              rows, k + 1)

\* Mutant of PreparePackageFiles: the license is resolved after the files
\* that need no head are registered.
M_PreparePackageFiles(a, vars) ==
  LET head == BashHead(a, vars)
      rows == FilesList(FilePrefix(a), BuildPackageBody(a, vars), head.text,
                        BashTail(vars), vars)
  IN  IF head.err # "none"
        THEN [err |-> head.err, files |-> AddAll(<<>>, SubSeq(rows, 7, 9), 1)]
        ELSE [err |-> "none", files |-> AddAll(<<>>, rows, 1)]

\* _prepare_package_files: the files registered with self._files, and the
\* error that leaves the method ("none" when it returns).
PreparePackageFiles(a, vars) ==
  LET head == BashHead(a, vars)
  IN  IF head.err # "none"
        THEN [err |-> head.err, files |-> <<>>]
        ELSE [err |-> "none",
              files |-> AddAll(<<>>,
                               FilesList(FilePrefix(a), BuildPackageBody(a, vars),
                                         head.text, BashTail(vars), vars),
                               1)]

\* Mutant of Package_create: save_all is called twice.
M_Package_create(done, fs) ==
  FileTemplateInfo_save_all(FileTemplateInfo_save_all(done, fs), fs)

\* create: self._files.save_all()
Package_create(done, fs) == FileTemplateInfo_save_all(done, fs)

(***************************************************************************)
(* The inputs of the model.                                                *)
(***************************************************************************)
Name_demo == <<"d", "e", "m", "o">>

Name_my_app == <<"m", "y", "_", "a", "p", "p">>

Name_my_dash_app == <<"m", "y", "-", "a", "p", "p">>

Name_mixed == <<"a", "_", "b", "-", "c", "_", "d">>

ProjectNames == {Name_demo, Name_my_app, Name_my_dash_app, Name_mixed}

Prefixes == {<<>>, <<"p", "-">>}

Languages == {C_LANGUAGE, "python"}

Licenses == {None, <<"gpl2">>, <<"bogus">>}

Key_PROJECT_NAME == <<"P", "R", "O", "J", "E", "C", "T", "_", "N", "A", "M", "E">>

Key_YEAR == <<"Y", "E", "A", "R">>

Key_arch == <<"a", "r", "c", "h">>

\* The project_vars mappings tried for a project name: none, the project's
\* own, one more key, a key that is also a shell variable of the build script,
\* and values with a "%" in them.
ProjectVars(name) ==
  { <<>>,
    (Key_PROJECT_NAME :> name),
    (Key_PROJECT_NAME :> name) @@ (Key_YEAR :> <<"2", "0", "1", "5">>),
    (Key_PROJECT_NAME :> name) @@ (Key_arch :> <<"a", "r", "m", "h", "f">>),
    (Key_PROJECT_NAME :> <<"5", "0", "%">>),
    (Key_PROJECT_NAME :> <<"a", "%", "%", "b">>),
    (Key_PROJECT_NAME :> <<"%", "s">>) }

(***************************************************************************)
(* The state: one Package, from before its construction on.                *)
(***************************************************************************)
VARIABLES
  args,          \* the parsed arguments: project_name, prefix, language, license
  project_vars,  \* the variable bindings
  pc,            \* "new", "constructed", or "failed" (__init__ raised)
  error,         \* the error that left __init__, "none" when none did
  root_dir,      \* self._root_dir
  files_root,    \* the directory self._files was created for
  files,         \* the entries registered with self._files
  license_calls, \* the number of calls of license.license_block
  saved,         \* the entries save_all has written, in order
  creates,       \* the number of create() calls
  last_dir       \* what the last current_dir() call returned

vars == <<args, project_vars, pc, error, root_dir, files_root, files, license_calls,
          saved, creates, last_dir>>

Init ==
  /\ args \in [project_name : ProjectNames, prefix : Prefixes, language : Languages,
               license : Licenses]
  /\ project_vars \in ProjectVars(args.project_name)
  /\ pc = "new"
  /\ error = "none"
  /\ root_dir = None
  /\ files_root = None
  /\ files = <<>>
  /\ license_calls = 0
  /\ saved = <<>>
  /\ creates = 0
  /\ last_dir = None

\* Package(args, project_vars)
Construct ==
  /\ pc = "new"
  /\ LET prepared == PreparePackageFiles(args, project_vars)
     IN  /\ root_dir' = RootDirName(args)
         /\ files_root' = RootDirName(args) \o <<"/">> \o PREFIX
         /\ files' = prepared.files
         /\ license_calls' = LicenseCalls(args)
         /\ error' = prepared.err
         /\ pc' = IF prepared.err = "none" THEN "constructed" ELSE "failed"
  /\ UNCHANGED <<args, project_vars, saved, creates, last_dir>>

\* current_dir()
CurrentDir ==
  /\ pc = "constructed"
  /\ last_dir' = root_dir
  /\ UNCHANGED <<args, project_vars, pc, error, root_dir, files_root, files,
                 license_calls, saved, creates>>

\* create()
Create ==
  /\ pc = "constructed"
  /\ creates < MaxCreate
  /\ saved' = Package_create(saved, files)
  /\ creates' = creates + 1
  /\ UNCHANGED <<args, project_vars, pc, error, root_dir, files_root, files,
                 license_calls, last_dir>>

Next == Construct \/ CurrentDir \/ Create

Spec == Init /\ [][Next]_vars

(***************************************************************************)
(* The claims.                                                             *)
(***************************************************************************)
Constructed == pc = "constructed"

\* The number of times the entry f has been handed to save_all.
TimesSaved(f) == Cardinality({j \in 1..Len(saved) : saved[j] = f})

\* The text s holds the text b as a contiguous run of elements.
Contains(s, b) == \E p \in 1..(Len(s) - Len(b) + 1) : SubSeq(s, p, p + Len(b) - 1) = b

C2_BuildBody ==
  Constructed =>
    /\ files[5].name = <<"build-package">>
    /\ (files[5].body # None) <=> (args.language = C_LANGUAGE)
    /\ args.language = C_LANGUAGE
         => files[5].body = SafeSubstitute(BUILD_PACKAGE, project_vars)
    /\ files[5].head # None /\ files[5].head = files[1].head
    /\ files[5].tail # None /\ files[5].tail = files[1].tail
    /\ files[6].body = SafeSubstitute(CLEAN_PACKAGE, project_vars)
    /\ files[9].body = SafeSubstitute(PACKAGE_CONF, project_vars)

\* C2 witness: build-package registered without a body, clean-package and
\* package.conf with one.
C2_Witness ==
  /\ Constructed
  /\ args.language # C_LANGUAGE
  /\ files[5].body = None
  /\ files[6].body # None
  /\ files[9].body # None

\* C3: the root directory name is "package", "-", the prefix as given, and
\* the project name with each "_" replaced by "-" and nothing else changed
\* (prefix "p-" and project name "my_app" give "package-p-my-app");
\* current_dir() returns it on every call, and no call changes it.
C3_RootDirState ==
  Constructed =>
    LET n == args.project_name
        k == 8 + Len(args.prefix)
    IN  /\ Len(root_dir) = k + Len(n)
        /\ SubSeq(root_dir, 1, 8) = <<"p", "a", "c", "k", "a", "g", "e", "-">>
        /\ SubSeq(root_dir, 9, k) = args.prefix
        /\ \A i \in 1..Len(n) : root_dir[k + i] = (IF n[i] = "_" THEN "-" ELSE n[i])
        /\ (args.prefix = <<"p", "-">> /\ n = Name_my_app)
             => root_dir = <<"p", "a", "c", "k", "a", "g", "e", "-", "p", "-", "m", "y",
                             "-", "a", "p", "p">>
        /\ last_dir \in {None, root_dir}

C3_RootDir ==
  /\ []C3_RootDirState
  /\ [][Constructed => /\ root_dir' = root_dir
                       /\ (CurrentDir => UNCHANGED <<args, project_vars, pc, error,
                                                     files_root, files, license_calls,
                                                     saved, creates>>)]_vars

\* C3 witness: current_dir() has returned "package-p-my-app".
C3_Witness ==
  last_dir = <<"p", "a", "c", "k", "a", "g", "e", "-", "p", "-", "m", "y", "-", "a", "p",
               "p">>

\* C4: the cron and init-script files are named by the project name with each
\* "-" replaced by "_" and nothing else changed, followed by "_cron" and
\* "_initd" ("my-app" gives "my_app_cron" and "my_app_initd"); where the
\* project name has a "_" or a "-", the root directory name has "-" and these
\* names have "_".
C4_FilePrefix ==
  Constructed =>
    LET n == args.project_name
        k == 8 + Len(args.prefix)
    IN  /\ \A f \in {7, 8} :
             /\ Len(files[f].name) = Len(n) + 1
             /\ \A i \in 1..Len(n) :
                  files[f].name[i] = (IF n[i] = "-" THEN "_" ELSE n[i])
        /\ files[7].name[Len(n) + 1] = "_cron"
        /\ files[8].name[Len(n) + 1] = "_initd"
        /\ n = Name_my_dash_app
             => /\ files[7].name = <<"m", "y", "_", "a", "p", "p", "_cron">>
                /\ files[8].name = <<"m", "y", "_", "a", "p", "p", "_initd">>
        /\ \A i \in 1..Len(n) :
             n[i] \in {"_", "-"} => root_dir[k + i] = "-" /\ files[7].name[i] = "_"

\* C4 witness: the files of project "my-app".
C4_Witness ==
  /\ Constructed
  /\ args.project_name = Name_my_dash_app
  /\ files[7].name = <<"m", "y", "_", "a", "p", "p", "_cron">>

\* The catalog and header templates a constructed Package has rendered with
\* safe_substitute alone, each with the registered text that came of it.
RenderedTexts ==
  <<<<CLEAN_PACKAGE, files[6].body>>, <<CRON, files[7].body>>, <<INITD, files[8].body>>,
    <<PACKAGE_CONF, files[9].body>>, <<TAIL, files[1].tail>>>>
    \o (IF args.language = C_LANGUAGE THEN <<<<BUILD_PACKAGE, files[5].body>>>> ELSE <<>>)
    \o (IF args.license = None THEN <<<<HEAD, files[1].head>>>> ELSE <<>>)

\* The placeholders of template t that have no binding.
Unbound(t) ==
  {m \in Matches(t) : m.kind \in {"named", "braced"} /\ m.name \notin DOMAIN project_vars}

\* C5: safe substitution.  Each registered text is its template's output
\* index by index, in order; where the template has a placeholder whose name
\* is no key of project_vars, the output is the placeholder as written and
\* nothing else; and a construction that calls no collaborator but
\* safe_substitute (no license) completes whatever project_vars lacks.
C5_SafeSubstitution ==
  /\ (pc # "new" /\ args.license = None) => Constructed /\ error = "none"
  /\ Constructed =>
       \A r \in 1..Len(RenderedTexts) :
         LET t == RenderedTexts[r][1]
         IN  /\ RenderedTexts[r][2] = Render(t, 1, Len(t), project_vars)
             /\ \A m \in Unbound(t) :
                  /\ ElemOut(t, m.first, project_vars) = Src(t, m)
                  /\ \A j \in (m.first + 1)..m.last : ElemOut(t, j, project_vars) = <<>>

\* C5 witness: a Package built with no bindings at all, whose package.conf
\* still says name=$PROJECT_NAME and whose scripts still end with
\* ${PROJECT_NAME}.
C5_Witness ==
  /\ Constructed
  /\ DOMAIN project_vars = {}
  /\ Contains(files[9].body, <<"name=", "$">> \o Key_PROJECT_NAME \o <<"\n">>)
  /\ Contains(files[1].tail, <<"$", "{">> \o Key_PROJECT_NAME \o <<"}">>)

\* The index of the "%" of the insertion slot "%s" in HEAD_LICENSE.
Slot == CHOOSE i \in 1..(Len(HEAD_LICENSE) - 1) : HEAD_LICENSE[i] = "%" /\ HEAD_LICENSE[i + 1] = "s"

\* C6 as claimed: in a Package built with a license the collaborator
\* recognizes, the head is HEAD_LICENSE with the bindings applied and the slot
\* replaced by the license block, and so holds the license block; in one built
\* with no license the head is HEAD with the bindings applied and
\* license_block was not called.  The six scripts share the head.
C6_Head ==
  Constructed =>
    /\ \A k \in 1..6 : files[k].head = files[1].head
    /\ args.license = None
         => license_calls = 0 /\ files[1].head = SafeSubstitute(HEAD, project_vars)
    /\ args.license \in KnownLicenses
         => /\ files[1].head
                 = SafeSubstitute(SubSeq(HEAD_LICENSE, 1, Slot - 1), project_vars)
                     \o license_block(args.license, project_vars, "#").text
                     \o SafeSubstitute(SubSeq(HEAD_LICENSE, Slot + 2, Len(HEAD_LICENSE)),
                                       project_vars)
            /\ Contains(files[1].head,
                        license_block(args.license, project_vars, "#").text)

\* C7: license resolution comes before any registration.  A construction that
\* fails has registered nothing, so the number of registered entries is 0 or
\* 9 once construction has ended; and an identifier license_block does not
\* recognize ends the construction with license_block's error.
C7_EagerLicense ==
  /\ pc = "failed" => files = <<>> /\ saved = <<>>
  /\ pc # "new" => Len(files) \in {0, 9}
  /\ (pc # "new" /\ args.license \notin KnownLicenses \cup {None})
       => pc = "failed" /\ error = "UnknownLicense" /\ license_calls = 1

\* C7 witness: a construction ended by the unknown-license error.
C7_Witness == pc = "failed" /\ error = "UnknownLicense" /\ files = <<>>

C9_Total ==
  /\ error \in {"none", "UnknownLicense"}
  /\ error = "UnknownLicense" => args.license \notin KnownLicenses \cup {None}
  /\ pc # "new" => (pc = "failed") = (error # "none")

\* The "$" tokens of template t other than the project-level placeholder
\* $PROJECT_NAME: the shell's own.
ShellTokens(t) == {m \in Matches(t) : m.name # Key_PROJECT_NAME}

\* C10 as claimed: each shell token of BUILD_PACKAGE, CLEAN_PACKAGE, CRON and
\* INITD is put out as written, whatever the keys of project_vars.
C10_ShellTokensPassThrough ==
  Constructed =>
    \A t \in {BUILD_PACKAGE, CLEAN_PACKAGE, CRON, INITD} :
      \A m \in ShellTokens(t) : ElemOut(t, m.first, project_vars) = Src(t, m)

====
